---- MODULE Spec2Model ----
(***************************************************************************)
(* Aurora audit-log backup pipeline: Instance Scanner -> work queue ->      *)
(* Log File Detector -> catalog (DynamoDB table + stream) -> Log File       *)
(* Downloader -> archive store (S3).                                        *)
(*                                                                          *)
(* Strings whose characters matter (file names, object keys, the decimal    *)
(* text of DynamoDB N attributes) are sequences of one-character strings.   *)
(***************************************************************************)
EXTENDS Integers, Sequences, FiniteSets, TLC

VARIABLES
    now,        \* wall clock, unix seconds (time.Now().Unix())
    source,     \* RDS: instance -> log file name -> [Size, LastWritten]
    workQueue,  \* SQS queue: sequence of message bodies (instance ids)
    catalog,    \* DynamoDB table: key -> item (attribute name -> N text)
    stream,     \* DynamoDB stream of the table: sequence of change events
    checkpoint, \* number of stream events already consumed by the Downloader
    archive,    \* S3 bucket: object key -> content
    det,        \* Detector invocations: process -> local state
    dl,         \* Downloader invocations: process -> local state
    envSteps,   \* number of steps of the environment so far: work items
                \* published, writes of the database to its logs, clock advances
    stamped,    \* history: keys whose LastBackup the Downloader has set
    completed,  \* history: stream positions processed to the end, once and twice
    sdOld, sdNew, sdNow, sdResult, \* shouldDownload's inputs and result
    scInstances,   \* a Scanner run on its own: the instances RDS reports,
    scFiles,       \* or the log files it reports to a Detector's listing,
    scPageSize,    \* the page size of the listing,
    scFailedCall,  \* the number of the page request that fails (0: none),
    scFailedSends, \* the positions of the sends that fail,
    scOut,         \* and what the run returned
    pd             \* downloadLogFile on its own: the state of its loop

pipelineVars == <<now, source, workQueue, catalog, stream, checkpoint, archive,
                  det, dl, envSteps, stamped, completed>>
sdVars == <<sdOld, sdNew, sdNow, sdResult>>
scanVars == <<scInstances, scFiles, scPageSize, scFailedCall, scFailedSends, scOut>>
unitVars == <<sdVars, scanVars, pd>>
vars == <<pipelineVars, sdVars, scanVars, pd>>

----------------------------------------------------------------------------
(* Bounds of the model *)

MaxEnvSteps == 3
RaceEnvSteps == 4
StartTime == 100000

----------------------------------------------------------------------------
(* Text *)

DigitChars == <<"0", "1", "2", "3", "4", "5", "6", "7", "8", "9">>

IsDigit(c) == \E i \in 1..10 : DigitChars[i] = c

DigitVal(c) == (CHOOSE i \in 1..10 : DigitChars[i] = c) - 1

RECURSIVE FormatNat(_)
FormatNat(n) == IF n < 10 THEN <<DigitChars[n + 1]>>
                ELSE FormatNat(n \div 10) \o <<DigitChars[(n % 10) + 1]>>

\* strconv.FormatInt(n, 10)
FormatInt(n) == IF n < 0 THEN <<"-">> \o FormatNat(0 - n) ELSE FormatNat(n)

RECURSIVE DigitsValue(_)
DigitsValue(s) == IF s = <<>> THEN 0
                  ELSE DigitsValue(SubSeq(s, 1, Len(s) - 1)) * 10 + DigitVal(s[Len(s)])

\* strconv.ParseInt(s, 10, 64): an optional sign, then at least one digit and
\* nothing but digits.
ParseInt(s) ==
    LET signed == Len(s) > 0 /\ s[1] \in {"-", "+"}
        body == IF signed THEN SubSeq(s, 2, Len(s)) ELSE s
    IN IF body = <<>> \/ \E i \in 1..Len(body) : ~IsDigit(body[i])
       THEN [ok |-> FALSE, val |-> 0]
       ELSE [ok |-> TRUE,
             val |-> IF signed /\ s[1] = "-" THEN 0 - DigitsValue(body)
                     ELSE DigitsValue(body)]

----------------------------------------------------------------------------
(* Names used by the model's environment *)

DB1 == <<"d", "b", "1">>
DB2 == <<"d", "b", "2">>

AuditLogName == <<"a", "u", "d", "i", "t", ".", "l", "o", "g">>
ServerAuditLogName ==
    <<"a", "u", "d", "i", "t", "/", "s", "e", "r", "v", "e", "r", "_", "a", "u", "d", "i", "t", ".", "l", "o", "g">>
ErrorAuditLogName ==
    <<"e", "r", "r", "o", "r", "/", "m", "y", "s", "q", "l", "-", "a", "u", "d", "i", "t", ".", "l", "o", "g">>
RandomLogName == <<"r", "a", "n", "d", "o", "m", ".", "l", "o", "g">>
\* Other names a listing may hold: "auditXYZ", "audit", "audi", "myaudit"
AuditXYZName == <<"a", "u", "d", "i", "t", "X", "Y", "Z">>
AuditPrefixName == <<"a", "u", "d", "i", "t">>
ShortName == <<"a", "u", "d", "i">>
MyAuditName == <<"m", "y", "a", "u", "d", "i", "t">>

\* s3Prefix: S3_PREFIX, "logs" when it is not set
S3Prefix == <<"l", "o", "g", "s">>

\* The threshold of shouldDownload: 24*60*60 seconds
StalenessSeconds == 86400

----------------------------------------------------------------------------
(* Log File Detector: pure parts *)

\* isAuditLog without its prefix rule: the three names only.
isAuditLogExactOnly(logFileName) ==
    \/ logFileName = AuditLogName
    \/ logFileName = ServerAuditLogName
    \/ logFileName = ErrorAuditLogName

\* isAuditLog
isAuditLog(logFileName) ==
    \/ logFileName = AuditLogName
    \/ logFileName = ServerAuditLogName
    \/ logFileName = ErrorAuditLogName
    \/ (Len(logFileName) >= 5
        /\ SubSeq(logFileName, 1, 5) = <<"a", "u", "d", "i", "t">>)

\* MarshalMap with the omitempty of LastBackup forgotten: a zero LastBackup is
\* written as an attribute.
MarshalMapNoOmit(record) ==
    [a \in {"Size", "LastWritten", "LastBackup"} |->
        CASE a = "Size" -> FormatInt(record.Size)
          [] a = "LastWritten" -> FormatInt(record.LastWritten)
          [] a = "LastBackup" -> FormatInt(record.LastBackup)]

\* attributevalue.MarshalMap of a LogFileRecord, without the two key
\* attributes (the catalog is indexed by them): Size and LastWritten always,
\* LastBackup only when it is not zero (omitempty).
MarshalMap(record) ==
    [a \in {"Size", "LastWritten"}
           \cup (IF record.LastBackup # 0 THEN {"LastBackup"} ELSE {}) |->
        CASE a = "Size" -> FormatInt(record.Size)
          [] a = "LastWritten" -> FormatInt(record.LastWritten)
          [] a = "LastBackup" -> FormatInt(record.LastBackup)]

\* The int64 field of a LogFileRecord decoded from attribute a of an item: the
\* zero value when the attribute is missing.
FieldOf(item, a) == IF a \in DOMAIN item THEN ParseInt(item[a]).val ELSE 0

\* attributevalue.UnmarshalMap of an item into a LogFileRecord
UnmarshalMap(item) ==
    [Size |-> FieldOf(item, "Size"),
     LastWritten |-> FieldOf(item, "LastWritten"),
     LastBackup |-> FieldOf(item, "LastBackup")]

----------------------------------------------------------------------------
(* Log File Downloader: pure parts *)

\* shouldDownload with the staleness test off by one (<= for <)
shouldDownloadInclusive(oldImage, newImage, t) ==
    IF "Size" \in DOMAIN oldImage /\ "Size" \in DOMAIN newImage
       /\ oldImage["Size"] # newImage["Size"]
    THEN TRUE
    ELSE IF "LastWritten" \in DOMAIN oldImage /\ "LastWritten" \in DOMAIN newImage
            /\ oldImage["LastWritten"] # newImage["LastWritten"]
    THEN TRUE
    ELSE IF "LastBackup" \notin DOMAIN newImage
    THEN TRUE
    ELSE LET lastBackupVal == ParseInt(newImage["LastBackup"])
         IN IF ~lastBackupVal.ok THEN TRUE
            ELSE lastBackupVal.val <= t - StalenessSeconds

\* shouldDownload with the LastWritten comparison left out
shouldDownloadSizeOnly(oldImage, newImage, t) ==
    IF "Size" \in DOMAIN oldImage /\ "Size" \in DOMAIN newImage
       /\ oldImage["Size"] # newImage["Size"]
    THEN TRUE
    ELSE IF "LastBackup" \notin DOMAIN newImage
    THEN TRUE
    ELSE LET lastBackupVal == ParseInt(newImage["LastBackup"])
         IN IF ~lastBackupVal.ok THEN TRUE
            ELSE lastBackupVal.val < t - StalenessSeconds

\* shouldDownload taking any difference of the two images for a change
shouldDownloadAnyDifference(oldImage, newImage, t) ==
    IF oldImage # newImage THEN TRUE
    ELSE IF "LastBackup" \notin DOMAIN newImage THEN TRUE
    ELSE LET lastBackupVal == ParseInt(newImage["LastBackup"])
         IN IF ~lastBackupVal.ok THEN TRUE
            ELSE lastBackupVal.val < t - StalenessSeconds

\* shouldDownload(oldImage, newImage), with time.Now().Unix() = t
shouldDownload(oldImage, newImage, t) ==
    IF "Size" \in DOMAIN oldImage /\ "Size" \in DOMAIN newImage
       /\ oldImage["Size"] # newImage["Size"]
    THEN TRUE
    ELSE IF "LastWritten" \in DOMAIN oldImage /\ "LastWritten" \in DOMAIN newImage
            /\ oldImage["LastWritten"] # newImage["LastWritten"]
    THEN TRUE
    ELSE IF "LastBackup" \notin DOMAIN newImage
    THEN TRUE
    ELSE LET lastBackupVal == ParseInt(newImage["LastBackup"])
             twentyFourHoursAgo == t - StalenessSeconds
         IN IF ~lastBackupVal.ok THEN TRUE
            ELSE lastBackupVal.val < twentyFourHoursAgo

\* sdkS3Key with the instance identifier left out of the key
sdkS3KeyNoInstance(prefix, dbInstanceID, logFileName) ==
    prefix \o <<"/">> \o logFileName \o <<"-", "s", "d", "k">>

\* sdkS3Key: fmt.Sprintf("%s/%s/%s-sdk", s3Prefix, instance, file)
sdkS3Key(prefix, dbInstanceID, logFileName) ==
    prefix \o <<"/">> \o dbInstanceID \o <<"/">> \o logFileName \o <<"-", "s", "d", "k">>

\* restS3Key: fmt.Sprintf("%s/%s/%s-rest", s3Prefix, instance, file)
restS3Key(prefix, dbInstanceID, logFileName) ==
    prefix \o <<"/">> \o dbInstanceID \o <<"/">> \o logFileName \o <<"-", "r", "e", "s", "t">>

----------------------------------------------------------------------------
(* The database instances and their log files (RDS) *)

\* The instances DescribeDBInstances reports, in order.
\* Engine of an instance that reports none (a nil *string)
NilEngine == "<nil>"

DBInstances == <<[DBInstanceIdentifier |-> DB1, Engine |-> "aurora-mysql"],
                 [DBInstanceIdentifier |-> DB2, Engine |-> "postgres"]>>

\* The log files of every instance, in the order DescribeDBLogFiles lists them.
SourceFiles == <<RandomLogName, AuditLogName>>

\* The files the database keeps writing to.
WrittenFiles == {AuditLogName}

InstanceIds == {DBInstances[i].DBInstanceIdentifier : i \in 1..Len(DBInstances)}

FileNames == {SourceFiles[i] : i \in 1..Len(SourceFiles)}

\* The order in which DescribeDBLogFiles lists the files an instance can have.
ListingOrder == SourceFiles \o <<ServerAuditLogName>>

\* The whole listing of an instance's log files: the files it has, in order.
Listing(src, dbInstanceID) ==
    LET files == SelectSeq(ListingOrder, LAMBDA f : f \in DOMAIN src[dbInstanceID])
    IN [i \in 1..Len(files) |->
           [LogFileName |-> files[i],
            Size |-> src[dbInstanceID][files[i]].Size,
            LastWritten |-> src[dbInstanceID][files[i]].LastWritten]]

Min(a, b) == IF a < b THEN a ELSE b

\* One page of a paginated listing: the items after position marker, and the
\* marker of the next page (0 when there is none; a nil Marker).
DescribePage(all, marker, pageSize) ==
    LET last == Min(marker + pageSize, Len(all))
    IN [Items |-> SubSeq(all, marker + 1, last),
        Marker |-> IF last < Len(all) THEN last ELSE 0]

\* The pagination loop cut after its first page
FollowPagesFirstPage(all, marker, pageSize, acc) ==
    acc \o DescribePage(all, marker, pageSize).Items

\* The pagination loop of getDBLogFiles and getDBInstances: append each page,
\* stop when a page carries no marker.
RECURSIVE FollowPages(_, _, _, _)
FollowPages(all, marker, pageSize, acc) ==
    LET resp == DescribePage(all, marker, pageSize)
    IN IF resp.Marker = 0 THEN acc \o resp.Items
       ELSE FollowPages(all, resp.Marker, pageSize, acc \o resp.Items)

\* getDBLogFiles, when no page fails
getDBLogFiles(src, dbInstanceID, pageSize) ==
    FollowPages(Listing(src, dbInstanceID), 0, pageSize, <<>>)

\* The number of page requests the pagination loop makes
RECURSIVE PageCalls(_, _, _)
PageCalls(all, marker, pageSize) ==
    LET resp == DescribePage(all, marker, pageSize)
    IN IF resp.Marker = 0 THEN 1 ELSE 1 + PageCalls(all, resp.Marker, pageSize)

\* getDBInstances with the error of a page request swallowed: the instances of
\* the pages before it are returned.
getDBInstancesPartial(all, pageSize, failedCall) ==
    IF failedCall \in 1..PageCalls(all, 0, pageSize)
    THEN [err |-> FALSE,
          instances |-> SubSeq(all, 1, Min((failedCall - 1) * pageSize, Len(all)))]
    ELSE [err |-> FALSE, instances |-> FollowPages(all, 0, pageSize, <<>>)]

\* getDBInstances over the instances all that RDS holds: nil and the error when
\* the page request number failedCall fails (0: none does), else every page's
\* instances.
getDBInstances(all, pageSize, failedCall) ==
    IF failedCall \in 1..PageCalls(all, 0, pageSize)
    THEN [err |-> TRUE, instances |-> <<>>]
    ELSE [err |-> FALSE, instances |-> FollowPages(all, 0, pageSize, <<>>)]

PageSizes == 1..2

----------------------------------------------------------------------------
(* The catalog (DynamoDB table) and its stream *)

EmptyItem == [a \in {} |-> <<>>]

Key(dbInstanceID, logFileName) ==
    [DBInstanceIdentifier |-> dbInstanceID, LogFileName |-> logFileName]

\* GetItem: the item stored under key k, the empty item when there is none.
GetItem(cat, k) == IF k \in DOMAIN cat THEN cat[k] ELSE EmptyItem

\* PutItem: the item under k is replaced as a whole.
PutItem(cat, k, item) ==
    [x \in DOMAIN cat \cup {k} |-> IF x = k THEN item ELSE cat[x]]

\* UpdateItem with a SET expression: the named attributes are assigned, the
\* others kept; the item is created when k has none.
UpdateItem(cat, k, sets) ==
    LET old == GetItem(cat, k)
    IN PutItem(cat, k,
               [a \in DOMAIN old \cup DOMAIN sets |->
                   IF a \in DOMAIN sets THEN sets[a] ELSE old[a]])

\* The stream after the table went from cat to cat2 by a write to k
\* (NEW_AND_OLD_IMAGES): INSERT for a new item, MODIFY for a changed one,
\* nothing for a write that changes nothing.
StreamAfter(str, cat, cat2, k) ==
    IF k \notin DOMAIN cat
    THEN Append(str, [eventName |-> "INSERT", Keys |-> k,
                      OldImage |-> EmptyItem, NewImage |-> cat2[k]])
    ELSE IF cat[k] = cat2[k] THEN str
    ELSE Append(str, [eventName |-> "MODIFY", Keys |-> k,
                      OldImage |-> cat[k], NewImage |-> cat2[k]])

\* DeleteItem: a record removed from the table from outside the pipeline (no
\* component deletes records).
DeleteItem(cat, k) == [x \in DOMAIN cat \ {k} |-> cat[x]]

\* The stream after the item under k was deleted: a REMOVE record with the old
\* image and no new image.
StreamAfterDelete(str, cat, k) ==
    IF k \notin DOMAIN cat THEN str
    ELSE Append(str, [eventName |-> "REMOVE", Keys |-> k,
                      OldImage |-> cat[k], NewImage |-> EmptyItem])

----------------------------------------------------------------------------
(* Instance Scanner *)

\* The filter taking every engine of the Aurora family
filterAuroraByFamily(instances) ==
    LET IsAurora(instance) ==
            instance.Engine \in {"aurora-mysql", "aurora", "aurora-postgresql"}
    IN SelectSeq(instances, IsAurora)

\* filterAuroraInstances: the instances whose Engine is set and is exactly
\* "aurora-mysql" or "aurora"
filterAuroraInstances(instances) ==
    LET IsAurora(instance) ==
            /\ instance.Engine # NilEngine
            /\ (instance.Engine = "aurora-mysql" \/ instance.Engine = "aurora")
    IN SelectSeq(instances, IsAurora)

\* The sends with the loop left at the first failed send
RECURSIVE SentBodiesUntilFailure(_, _, _)
SentBodiesUntilFailure(instances, failed, i) ==
    IF i > Len(instances) \/ i \in failed THEN <<>>
    ELSE <<instances[i].DBInstanceIdentifier>>
         \o SentBodiesUntilFailure(instances, failed, i + 1)

\* The message bodies sendToSQS adds to the queue for the instances, in order,
\* when the sends at the positions in failed return an error.
RECURSIVE SentBodies(_, _, _)
SentBodies(instances, failed, i) ==
    IF i > Len(instances) THEN <<>>
    ELSE (IF i \in failed THEN <<>> ELSE <<instances[i].DBInstanceIdentifier>>)
         \o SentBodies(instances, failed, i + 1)

\* Handler (dbscanner) over the instances all: what it returns (err, and
\* InstancesFound of the Response), with the instances it listed and the
\* message bodies it sent. A failed enumeration returns the error and sends
\* nothing; otherwise every Aurora instance is sent, a failed send is skipped.
ScannerHandler(all, pageSize, failedCall, failedSends) ==
    LET listed == getDBInstances(all, pageSize, failedCall)
        auroraInstances == filterAuroraInstances(listed.instances)
    IN IF listed.err
       THEN [err |-> TRUE, InstancesFound |-> 0, instances |-> <<>>, sent |-> <<>>]
       ELSE [err |-> FALSE, InstancesFound |-> Len(auroraInstances),
             instances |-> listed.instances,
             sent |-> SentBodies(auroraInstances, failedSends, 1)]

\* A scheduled run whose enumeration fails, here at its first page request
\* (a run on its own is taken through every failing request in SpecScan)
ScannerEnumerationFails ==
    /\ workQueue' = workQueue \o ScannerHandler(DBInstances, 1, 1, {}).sent
    /\ UNCHANGED <<now, source, catalog, stream, checkpoint, archive,
                   det, dl, envSteps, stamped, completed>>
    /\ UNCHANGED unitVars

\* A scheduled run whose enumeration succeeds
ScannerRun(budget) ==
    /\ \E pageSize \in PageSizes :
         \E failed \in SUBSET (1..ScannerHandler(DBInstances, pageSize, 0, {}).InstancesFound) :
           workQueue' = workQueue
              \o ScannerHandler(DBInstances, pageSize, 0, failed).sent
    /\ envSteps' = envSteps + (Len(workQueue') - Len(workQueue))
    /\ envSteps' <= budget
    /\ UNCHANGED <<now, source, catalog, stream, checkpoint, archive,
                   det, dl, stamped, completed>>
    /\ UNCHANGED unitVars

----------------------------------------------------------------------------
(* Log File Detector *)

DetProcs == {"d1", "d2"}

\* The invocations are interchangeable: of the idle ones, the first is started.
ProcOrder == [p \in DetProcs |-> IF p = "d1" THEN 1 ELSE 2]

\* lambdaBatchSize: the most messages or stream records one invocation gets
BatchSize == 2

NoRecord == [found |-> FALSE, Size |-> 0, LastWritten |-> 0, LastBackup |-> 0]

\* alone and failed are history: whether no other Detector invocation wrote to
\* the catalog, and whether an error occurred, since the current work item's
\* listing.
DetIdle == [pc |-> "idle", batch |-> <<>>, mi |-> 0, logFiles |-> <<>>, fi |-> 0,
            existingRecord |-> NoRecord, alone |-> TRUE, failed |-> FALSE]

\* getLogFileRecord, when GetItem succeeds: nil for no item, else the item
\* decoded into a LogFileRecord.
getLogFileRecord(cat, k) ==
    IF GetItem(cat, k) = EmptyItem THEN NoRecord
    ELSE [found |-> TRUE,
          Size |-> UnmarshalMap(cat[k]).Size,
          LastWritten |-> UnmarshalMap(cat[k]).LastWritten,
          LastBackup |-> UnmarshalMap(cat[k]).LastBackup]

\* createLogFileRecord, when PutItem succeeds
createLogFileRecord(cat, k, record) == PutItem(cat, k, MarshalMap(record))

\* updateLogFileRecord, when UpdateItem succeeds: SET Size and LastWritten,
\* and LastBackup when the record carries one.
updateLogFileRecord(cat, k, record) ==
    UpdateItem(cat, k,
        [a \in {"Size", "LastWritten"}
               \cup (IF record.LastBackup > 0 THEN {"LastBackup"} ELSE {}) |->
            CASE a = "Size" -> FormatInt(record.Size)
              [] a = "LastWritten" -> FormatInt(record.LastWritten)
              [] a = "LastBackup" -> FormatInt(record.LastBackup)])

\* The Handler's write with the unchanged case put again instead of skipped
DetectorWriteAlwaysPut(cat, k, existingRecord, logFile) ==
    LET record == [Size |-> logFile.Size, LastWritten |-> logFile.LastWritten,
                   LastBackup |-> 0]
    IN IF existingRecord.found
          /\ (existingRecord.Size # record.Size
              \/ existingRecord.LastWritten # record.LastWritten)
       THEN UpdateItem(cat, k, MarshalMap([record EXCEPT
                                   !.LastBackup = existingRecord.LastBackup]))
       ELSE PutItem(cat, k, MarshalMap(record))

\* Handler, the write for one audit log file given the record looked up
\* before: create when there was none, update when Size or LastWritten
\* differs (carrying the LastBackup that was read), else leave the table alone.
DetectorWrite(cat, k, existingRecord, logFile) ==
    LET record == [Size |-> logFile.Size, LastWritten |-> logFile.LastWritten,
                   LastBackup |-> 0]
    IN IF ~existingRecord.found
       THEN createLogFileRecord(cat, k, record)
       ELSE IF existingRecord.Size # record.Size
               \/ existingRecord.LastWritten # record.LastWritten
       THEN updateLogFileRecord(cat, k,
                [record EXCEPT !.LastBackup = existingRecord.LastBackup])
       ELSE cat

\* The position of the next audit log after position i of the listing (the
\* loop skips the files isAuditLog rejects); Len + 1 when there is none.
NextAudit(logFiles, i) ==
    LET later == {j \in (i + 1)..Len(logFiles) : isAuditLog(logFiles[j].LogFileName)}
    IN IF later = {} THEN Len(logFiles) + 1
       ELSE CHOOSE j \in later : \A j2 \in later : j <= j2

\* The Handler returning at the first work item that is over.
NextMessageReturn(local) == DetIdle

\* The invocation's state after the work item at position mi is over: the next
\* message of the batch, or the return of the Handler.
NextMessage(local) ==
    IF local.mi < Len(local.batch)
    THEN [DetIdle EXCEPT !.pc = "list", !.batch = local.batch, !.mi = local.mi + 1]
    ELSE DetIdle

\* The file loop left at the first file that is over: the later files of the
\* instance are not looked at.
NextFileSkipInstance(local) ==
    IF local.fi = 0
    THEN LET j == NextAudit(local.logFiles, 0)
         IN IF j <= Len(local.logFiles)
            THEN [local EXCEPT !.pc = "get", !.fi = j, !.existingRecord = NoRecord]
            ELSE NextMessage(local)
    ELSE NextMessage(local)

\* ... after the file at position fi is over: the next audit log of the
\* listing, or the next message.
NextFile(local) ==
    LET j == NextAudit(local.logFiles, local.fi)
    IN IF j <= Len(local.logFiles)
       THEN [local EXCEPT !.pc = "get", !.fi = j, !.existingRecord = NoRecord]
       ELSE NextMessage(local)

\* The SQS trigger hands a batch of messages to an invocation.
DetStart(p) ==
    /\ det[p].pc = "idle"
    /\ \A q \in DetProcs : det[q].pc = "idle" => ProcOrder[p] <= ProcOrder[q]
    /\ workQueue # <<>>
    /\ \E n \in 1..Min(BatchSize, Len(workQueue)) :
         /\ det' = [det EXCEPT ![p] = [DetIdle EXCEPT !.pc = "list",
                                         !.batch = SubSeq(workQueue, 1, n),
                                         !.mi = 1]]
         /\ workQueue' = SubSeq(workQueue, n + 1, Len(workQueue))
    /\ UNCHANGED <<now, source, catalog, stream, checkpoint, archive, dl,
                   envSteps, stamped, completed>>
    /\ UNCHANGED unitVars

\* getDBLogFiles for the current message fails: the message is skipped.
DetListFails(p) ==
    /\ det[p].pc = "list"
    /\ det' = [det EXCEPT ![p] = NextMessage(det[p])]
    /\ UNCHANGED <<now, source, workQueue, catalog, stream, checkpoint, archive,
                   dl, envSteps, stamped, completed>>
    /\ UNCHANGED unitVars

\* getDBLogFiles for the current message succeeds.
DetList(p) ==
    /\ det[p].pc = "list"
    /\ \E pageSize \in PageSizes :
         LET logFiles == getDBLogFiles(source, det[p].batch[det[p].mi], pageSize)
         IN det' = [det EXCEPT ![p] =
                       NextFile([det[p] EXCEPT !.logFiles = logFiles, !.fi = 0])]
    /\ UNCHANGED <<now, source, workQueue, catalog, stream, checkpoint, archive,
                   dl, envSteps, stamped, completed>>
    /\ UNCHANGED unitVars

CurrentKey(local) ==
    Key(local.batch[local.mi], local.logFiles[local.fi].LogFileName)

\* getLogFileRecord fails: the file is skipped.
DetGetFails(p) ==
    /\ det[p].pc = "get"
    /\ det' = [det EXCEPT ![p] = NextFile([det[p] EXCEPT !.failed = TRUE])]
    /\ UNCHANGED <<now, source, workQueue, catalog, stream, checkpoint, archive,
                   dl, envSteps, stamped, completed>>
    /\ UNCHANGED unitVars

DetGet(p) ==
    /\ det[p].pc = "get"
    /\ det' = [det EXCEPT ![p] =
                  [det[p] EXCEPT !.pc = "write",
                       !.existingRecord = getLogFileRecord(catalog, CurrentKey(det[p]))]]
    /\ UNCHANGED <<now, source, workQueue, catalog, stream, checkpoint, archive,
                   dl, envSteps, stamped, completed>>
    /\ UNCHANGED unitVars

\* createLogFileRecord or updateLogFileRecord fails: the file is skipped.
DetWriteFails(p) ==
    /\ det[p].pc = "write"
    /\ LET logFile == det[p].logFiles[det[p].fi]
       IN ~det[p].existingRecord.found
          \/ det[p].existingRecord.Size # logFile.Size
          \/ det[p].existingRecord.LastWritten # logFile.LastWritten
    /\ det' = [det EXCEPT ![p] = NextFile([det[p] EXCEPT !.failed = TRUE])]
    /\ UNCHANGED <<now, source, workQueue, catalog, stream, checkpoint, archive,
                   dl, envSteps, stamped, completed>>
    /\ UNCHANGED unitVars

DetWrite(p) ==
    /\ det[p].pc = "write"
    /\ LET k == CurrentKey(det[p])
           cat2 == DetectorWrite(catalog, k, det[p].existingRecord,
                                 det[p].logFiles[det[p].fi])
       IN /\ catalog' = cat2
          /\ stream' = StreamAfter(stream, catalog, cat2, k)
          /\ det' = [q \in DetProcs |->
                       IF q = p THEN NextFile(det[p])
                       ELSE IF cat2 # catalog /\ det[q].pc \in {"get", "write"}
                       THEN [det[q] EXCEPT !.alone = FALSE]
                       ELSE det[q]]
    /\ UNCHANGED <<now, source, workQueue, checkpoint, archive, dl,
                   envSteps, stamped, completed>>
    /\ UNCHANGED unitVars

----------------------------------------------------------------------------
(* Log File Downloader *)

DlProcs == {"w1"}

NoContent == [ok |-> FALSE, data |-> 0]

DlIdle == [pc |-> "idle", from |-> 0, batch |-> <<>>, ri |-> 0,
           sdkLogContent |-> NoContent, restLogContent |-> NoContent, uploads |-> 0]

\* updateLastBackup writing the whole item (PutItem) instead of one attribute
updateLastBackupPut(cat, k, t) ==
    PutItem(cat, k, [a \in {"LastBackup"} |-> FormatInt(t)])

\* updateLastBackup at time t, when UpdateItem succeeds: SET LastBackup
updateLastBackup(cat, k, t) ==
    UpdateItem(cat, k, [a \in {"LastBackup"} |-> FormatInt(t)])

\* unmarshalDynamoDBEvent of an image into a LogFileRecord: a Size,
\* LastWritten or LastBackup that strconv.ParseInt rejects is kept as a string,
\* and UnmarshalMap then fails to decode a string into the int64 field.
unmarshalDynamoDBEvent(image) ==
    [err |-> \E a \in DOMAIN image \cap {"Size", "LastWritten", "LastBackup"} :
                ~ParseInt(image[a]).ok,
     record |-> UnmarshalMap(image)]

\* WantsDownload with the test of the event type left out
WantsDownloadAnyEvent(record, t) ==
    /\ ~unmarshalDynamoDBEvent(record.NewImage).err
    /\ (record.eventName = "MODIFY"
          => shouldDownload(record.OldImage, record.NewImage, t))

\* Whether the Handler goes on to download for a stream record at time t:
\* INSERT and MODIFY only, only when the new image decodes, and a MODIFY only
\* when shouldDownload says so.
WantsDownload(record, t) ==
    /\ record.eventName \in {"INSERT", "MODIFY"}
    /\ ~unmarshalDynamoDBEvent(record.NewImage).err
    /\ (record.eventName = "MODIFY"
          => shouldDownload(record.OldImage, record.NewImage, t))

\* The content of a log file as the database holds it now.
ContentOf(src, k) ==
    [ok |-> TRUE, data |-> src[k.DBInstanceIdentifier][k.LogFileName].Size]

\* NextRecord with a return in place of the continue: the rest of the batch is
\* dropped.
NextRecordAbort(local) == DlIdle

\* The invocation's state after the record at position ri is over (every
\* continue of the loop, and its last statement): the next record of the batch,
\* or the return of the Handler.
NextRecord(local) ==
    IF local.ri < Len(local.batch)
    THEN [DlIdle EXCEPT !.pc = "decide", !.from = local.from, !.batch = local.batch,
                        !.ri = local.ri + 1]
    ELSE DlIdle

\* The stream's checkpoint after that: the Handler returns nil after the last
\* record, and the checkpoint moves past the batch.
NextCheckpoint(local, cp) ==
    IF local.ri < Len(local.batch) THEN cp ELSE local.from + Len(local.batch)

CurrentRecord(local) == local.batch[local.ri]

\* The stream trigger hands the records after the checkpoint to an invocation;
\* one invocation at a time reads the stream.
DlStart(p) ==
    /\ \A q \in DlProcs : dl[q].pc = "idle"
    /\ checkpoint < Len(stream)
    /\ \E n \in 1..Min(BatchSize, Len(stream) - checkpoint) :
         dl' = [dl EXCEPT ![p] =
                   [DlIdle EXCEPT !.pc = "decide", !.from = checkpoint,
                        !.batch = SubSeq(stream, checkpoint + 1, checkpoint + n),
                        !.ri = 1]]
    /\ UNCHANGED <<now, source, workQueue, catalog, stream, checkpoint, archive,
                   det, envSteps, stamped, completed>>
    /\ UNCHANGED unitVars

\* Handler: the record is skipped by the event-type test or the
\* shouldDownload test.
DlSkip(p) ==
    /\ dl[p].pc = "decide"
    /\ ~WantsDownload(CurrentRecord(dl[p]), now)
    /\ dl' = [dl EXCEPT ![p] = NextRecord(dl[p])]
    /\ checkpoint' = NextCheckpoint(dl[p], checkpoint)
    /\ UNCHANGED <<now, source, workQueue, catalog, stream, archive,
                   det, envSteps, stamped, completed>>
    /\ UNCHANGED unitVars

\* downloadLogFile returns an error: the record is skipped.
DlDownloadFails(p) ==
    /\ dl[p].pc = "decide"
    /\ WantsDownload(CurrentRecord(dl[p]), now)
    /\ dl' = [dl EXCEPT ![p] = NextRecord(dl[p])]
    /\ checkpoint' = NextCheckpoint(dl[p], checkpoint)
    /\ UNCHANGED <<now, source, workQueue, catalog, stream, archive,
                   det, envSteps, stamped, completed>>
    /\ UNCHANGED unitVars

\* What downloadCompleteLogFile can come to, next to downloadLogFile: an error,
\* the same bytes (equal MD5), or other bytes (the MD5 values differ).
RestOutcomes == {"error", "same", "different"}

\* The outcomes drawn in the runs of the whole pipeline: the Handler does the
\* same with a REST result of other bytes as with one of the same bytes (it
\* logs), so the pipeline is run with one of the two.
PipelineRestOutcomes == {"error", "same"}

\* The content downloadCompleteLogFile returns when it returns other bytes than
\* downloadLogFile did.
OtherContent(content) == [content EXCEPT !.data = @ + 1]

\* downloadLogFile succeeds; downloadCompleteLogFile returns an error, which
\* leaves restLogContent nil, or content whose MD5 is compared with the SDK
\* result's and only logged.
DlDownload(p, outcomes) ==
    /\ dl[p].pc = "decide"
    /\ WantsDownload(CurrentRecord(dl[p]), now)
    /\ \E rest \in outcomes :
         LET content == ContentOf(source, CurrentRecord(dl[p]).Keys)
         IN dl' = [dl EXCEPT ![p] =
                      [dl[p] EXCEPT !.pc = "upload",
                           !.sdkLogContent = content,
                           !.restLogContent =
                               CASE rest = "error" -> NoContent
                                 [] rest = "same" -> content
                                 [] rest = "different" -> OtherContent(content)]]
    /\ UNCHANGED <<now, source, workQueue, catalog, stream, checkpoint, archive,
                   det, envSteps, stamped, completed>>
    /\ UNCHANGED unitVars

\* uploadToS3 of the SDK result returns an error: the record is skipped.
DlUploadFails(p) ==
    /\ dl[p].pc = "upload"
    /\ dl' = [dl EXCEPT ![p] = NextRecord(dl[p])]
    /\ checkpoint' = NextCheckpoint(dl[p], checkpoint)
    /\ UNCHANGED <<now, source, workQueue, catalog, stream, archive,
                   det, envSteps, stamped, completed>>
    /\ UNCHANGED unitVars

\* PutObject: the object under key is replaced.
PutObject(bucket, key, content) ==
    [x \in DOMAIN bucket \cup {key} |-> IF x = key THEN content ELSE bucket[x]]

\* UploadBoth with the SDK result uploaded only together with the REST result
UploadBothOrNone(bucket, k, local, restUploaded) ==
    IF restUploaded
    THEN PutObject(PutObject(bucket,
                       sdkS3Key(S3Prefix, k.DBInstanceIdentifier, k.LogFileName),
                       local.sdkLogContent.data),
             restS3Key(S3Prefix, k.DBInstanceIdentifier, k.LogFileName),
             local.restLogContent.data)
    ELSE bucket

\* The bucket after the Handler's uploads for the record with key k: the SDK
\* result, then the REST result when there is one and its upload succeeds.
UploadBoth(bucket, k, local, restUploaded) ==
    LET withSdk == PutObject(bucket,
                       sdkS3Key(S3Prefix, k.DBInstanceIdentifier, k.LogFileName),
                       local.sdkLogContent.data)
    IN IF restUploaded
       THEN PutObject(withSdk,
                restS3Key(S3Prefix, k.DBInstanceIdentifier, k.LogFileName),
                local.restLogContent.data)
       ELSE withSdk

\* uploadToS3 of the SDK result succeeds; the upload of the REST result, when
\* there is one, succeeds or fails, and the Handler goes on either way.
DlUpload(p) ==
    /\ dl[p].pc = "upload"
    /\ \E restUploadOk \in BOOLEAN :
         LET restUploaded == dl[p].restLogContent.ok /\ restUploadOk
             restTried == dl[p].restLogContent.ok
         IN /\ archive' = UploadBoth(archive, CurrentRecord(dl[p]).Keys, dl[p],
                                     restUploaded)
            /\ dl' = [dl EXCEPT ![p] =
                         [dl[p] EXCEPT !.pc = "stamp",
                              !.uploads = IF restTried THEN 2 ELSE 1]]
    /\ UNCHANGED <<now, source, workQueue, catalog, stream, checkpoint,
                   det, envSteps, stamped, completed>>
    /\ UNCHANGED unitVars

\* The Handler with the continue after a failed upload missing: it goes on to
\* updateLastBackup from the upload as well.
ReadyToStampEarly(local) == local.pc \in {"upload", "stamp"}

\* The Handler reaches updateLastBackup only past the upload of the SDK result.
ReadyToStamp(local) == local.pc = "stamp"

\* updateLastBackup returns an error: the record is skipped.
DlStampFails(p) ==
    /\ dl[p].pc = "stamp"
    /\ dl' = [dl EXCEPT ![p] = NextRecord(dl[p])]
    /\ checkpoint' = NextCheckpoint(dl[p], checkpoint)
    /\ UNCHANGED <<now, source, workQueue, catalog, stream, archive,
                   det, envSteps, stamped, completed>>
    /\ UNCHANGED unitVars

DlStamp(p) ==
    /\ ReadyToStamp(dl[p])
    /\ LET k == CurrentRecord(dl[p]).Keys
           cat2 == updateLastBackup(catalog, k, now)
           position == dl[p].from + dl[p].ri
       IN /\ catalog' = cat2
          /\ stream' = StreamAfter(stream, catalog, cat2, k)
          /\ stamped' = stamped \cup {k}
          /\ completed' = IF position \in completed.once
                          THEN [completed EXCEPT !.twice = @ \cup {position}]
                          ELSE [completed EXCEPT !.once = @ \cup {position}]
    /\ dl' = [dl EXCEPT ![p] = NextRecord(dl[p])]
    /\ checkpoint' = NextCheckpoint(dl[p], checkpoint)
    /\ UNCHANGED <<now, source, workQueue, archive, det, envSteps>>
    /\ UNCHANGED unitVars

\* The invocation dies (timeout, crash) before it returns: the checkpoint stays
\* and the same records are handed out again.
DlCrash(p) ==
    /\ dl[p].pc # "idle"
    /\ dl' = [dl EXCEPT ![p] = DlIdle]
    /\ UNCHANGED <<now, source, workQueue, catalog, stream, checkpoint, archive,
                   det, envSteps, stamped, completed>>
    /\ UNCHANGED unitVars

----------------------------------------------------------------------------
(* The environment: the database writes its logs, time passes *)

SourceWrite(i, f, budget) ==
    /\ envSteps < budget
    /\ envSteps' = envSteps + 1
    /\ source' = [source EXCEPT ![i][f] = [Size |-> @.Size + 100,
                                           LastWritten |-> @.LastWritten + 1000]]
    /\ UNCHANGED <<now, workQueue, catalog, stream, checkpoint, archive,
                   det, dl, stamped, completed>>
    /\ UNCHANGED unitVars

TickSteps == {StalenessSeconds + 1}

Tick(d, budget) ==
    /\ envSteps < budget
    /\ envSteps' = envSteps + 1
    /\ now' = now + d
    /\ UNCHANGED <<source, workQueue, catalog, stream, checkpoint, archive,
                   det, dl, stamped, completed>>
    /\ UNCHANGED unitVars

----------------------------------------------------------------------------
(* downloadLogFile: the loop over the portions of a log file                 *)

\* The most portions of data a log file holds, and the most requests of one
\* download whose markers and answers the model records
MaxPortions == 3

\* A nil *string in the place of a marker
NilMarker == "<nil>"

\* The markers a response can carry: none, the empty one, "0", "1"
ResponseMarkers == {NilMarker, "", "0", "1"}

\* LogFileData of a response: nil, or a text that may be empty
NilData == [present |-> FALSE, text |-> <<>>]
PortionData ==
    {NilData} \cup {[present |-> TRUE, text |-> t] : t \in {<<>>, <<"a">>, <<"b">>}}

\* AdditionalDataPending of a response: a *bool
PendingFlags == {"nil", "false", "true"}

\* What DownloadDBLogFilePortion can answer: an error (the timeout of the
\* request is one), or a response
FailedPortion ==
    [err |-> TRUE, LogFileData |-> NilData, AdditionalDataPending |-> "nil",
     Marker |-> NilMarker]
PortionResponses ==
    {FailedPortion} \cup
    [err : {FALSE}, LogFileData : PortionData,
     AdditionalDataPending : PendingFlags, Marker : ResponseMarkers]

\* What downloadLogFile returns with an error: nil
NoResult == [ok |-> FALSE, data |-> <<>>]

\* portionCount counts the requests up to MaxPortions + 1, which stands for
\* every larger number (the count is used in log lines only). requests and
\* responses are history: the markers of the first MaxPortions requests and the
\* answers to them.
PortionIdle ==
    [pc |-> "idle", marker |-> "0", logContent |-> <<>>, portionCount |-> 0,
     result |-> NoResult, requests |-> <<>>, responses |-> <<>>]

\* logContent.Write keeping the last portion only
WriteLastOnly(logContent, portionData) == portionData

\* logContent.Write(portionData)
Write(logContent, portionData) == logContent \o portionData

\* The return of downloadLogFile after the loop: finalContent
ReturnContent(local) ==
    [local EXCEPT !.pc = "done", !.result = [ok |-> TRUE, data |-> local.logContent]]

\* The return of downloadLogFile with an error
ReturnError(local) == [local EXCEPT !.pc = "error", !.result = NoResult]

\* One pass of the loop of downloadLogFile whose request is answered by resp
PortionPass(local, resp) ==
    LET asked == IF local.portionCount < MaxPortions
                 THEN [local EXCEPT !.portionCount = local.portionCount + 1,
                                    !.requests = Append(local.requests, local.marker),
                                    !.responses = Append(local.responses, resp)]
                 ELSE [local EXCEPT !.portionCount = MaxPortions + 1]
    IN IF resp.err THEN ReturnError(asked)
       ELSE IF resp.LogFileData.present /\ Len(resp.LogFileData.text) = 0
       THEN IF resp.AdditionalDataPending = "true"
            THEN [asked EXCEPT !.marker = resp.Marker]
            ELSE ReturnContent(asked)
       ELSE LET written ==
                    IF resp.LogFileData.present
                    THEN [asked EXCEPT !.logContent =
                             Write(local.logContent, resp.LogFileData.text)]
                    ELSE asked
            IN IF resp.AdditionalDataPending # "true" THEN ReturnContent(written)
               ELSE IF resp.Marker = NilMarker \/ resp.Marker = ""
               THEN ReturnError(written)
               ELSE [written EXCEPT !.marker = resp.Marker]

\* getLogFileInfo fails.
PortionInfoFails ==
    /\ pd.pc = "info"
    /\ pd' = ReturnError(pd)
    /\ UNCHANGED <<pipelineVars, sdVars, scanVars>>

\* getLogFileInfo succeeds: the expected size is only logged.
PortionInfo ==
    /\ pd.pc = "info"
    /\ pd' = [pd EXCEPT !.pc = "request"]
    /\ UNCHANGED <<pipelineVars, sdVars, scanVars>>

\* The answers the API can give to the request after n others: anything for
\* the first MaxPortions requests, and after them anything but more data (the
\* file is finite; the signal of more data and the markers are not bound to it).
AnswersAfter(n) ==
    IF n < MaxPortions THEN PortionResponses
    ELSE {resp \in PortionResponses : resp.LogFileData.text = <<>>}

\* DownloadDBLogFilePortion and the rest of the loop's pass
PortionRequest ==
    /\ pd.pc = "request"
    /\ \E resp \in AnswersAfter(pd.portionCount) : pd' = PortionPass(pd, resp)
    /\ UNCHANGED <<pipelineVars, sdVars, scanVars>>

----------------------------------------------------------------------------
(* The pipeline *)

PipelineInit ==
    /\ now = StartTime
    /\ source = [i \in InstanceIds |->
                    [f \in FileNames |-> [Size |-> 100, LastWritten |-> 1000]]]
    /\ workQueue = <<>>
    /\ catalog = [k \in {} |-> EmptyItem]
    /\ stream = <<>>
    /\ checkpoint = 0
    /\ archive = [k \in {} |-> 0]
    /\ det = [p \in DetProcs |-> DetIdle]
    /\ dl = [p \in DlProcs |-> DlIdle]
    /\ envSteps = 0
    /\ stamped = {}
    /\ completed = [once |-> {}, twice |-> {}]

\* No Scanner run on its own
ScanIdle ==
    /\ scInstances = <<>>
    /\ scFiles = <<>>
    /\ scPageSize = 1
    /\ scFailedCall = 0
    /\ scFailedSends = {}
    /\ scOut = <<>>

Init ==
    /\ PipelineInit
    /\ sdOld = EmptyItem
    /\ sdNew = EmptyItem
    /\ sdNow = 0
    /\ sdResult = <<>>
    /\ ScanIdle
    /\ pd = PortionIdle

\* The steps of the three components
ProgramStep ==
    \/ ScannerEnumerationFails
    \/ \E p \in DetProcs :
         \/ DetStart(p)
         \/ DetListFails(p)
         \/ DetList(p)
         \/ DetGetFails(p)
         \/ DetGet(p)
         \/ DetWriteFails(p)
         \/ DetWrite(p)
    \/ \E p \in DlProcs :
         \/ DlStart(p)
         \/ DlSkip(p)
         \/ DlDownloadFails(p)
         \/ DlDownload(p, PipelineRestOutcomes)
         \/ DlUploadFails(p)
         \/ DlUpload(p)
         \/ DlStampFails(p)
         \/ DlStamp(p)
         \/ DlCrash(p)

\* The steps that the budget bounds
BoundedStep(budget) ==
    \/ ScannerRun(budget)
    \/ \E i \in {DB1}, f \in WrittenFiles : SourceWrite(i, f, budget)
    \/ \E d \in TickSteps : Tick(d, budget)

Next == ProgramStep \/ BoundedStep(MaxEnvSteps)

NextRace == ProgramStep \/ BoundedStep(RaceEnvSteps)

Spec == Init /\ [][Next]_vars

\* The same pipeline with a deeper environment, for the races between
\* invocations
SpecRace == Init /\ [][NextRace]_vars

----------------------------------------------------------------------------
(* shouldDownload on its own: every pair of images the catalog's stream can  *)
(* carry in a MODIFY record, at every time of a small set                    *)

SDBackups == {0, StartTime - StalenessSeconds - 1, StartTime - StalenessSeconds,
              StartTime - StalenessSeconds + 1, StartTime}

SDImages == {MarshalMap([Size |-> s, LastWritten |-> w, LastBackup |-> b]) :
                s \in {100, 200}, w \in {1000, 2000}, b \in SDBackups}

SDTimes == {StartTime, StartTime + 1}

InitSD ==
    /\ PipelineInit
    /\ sdOld \in SDImages
    /\ sdNew \in SDImages
    /\ sdNow \in SDTimes
    /\ sdResult = <<>>
    /\ ScanIdle
    /\ pd = PortionIdle

\* Handler, the shouldDownload test on a MODIFY record
SDApply ==
    /\ sdResult = <<>>
    /\ sdResult' = <<shouldDownload(sdOld, sdNew, sdNow)>>
    /\ UNCHANGED <<sdOld, sdNew, sdNow, pipelineVars, scanVars, pd>>

NextSD == SDApply

SpecSD == InitSD /\ [][NextSD]_vars

----------------------------------------------------------------------------
(* The Downloader on its own: every stream a short history of the table    *)
(* leaves, the records deleted from outside included                       *)

MaxHistory == 3

\* What happens to the record of ("db1", "audit.log"): the Detector's write
\* for a listing of 100/1000, its write for a listing of 200/2000, a delete
\* from outside.
TableOps == {"list100", "list200", "delete", "fraction"}

\* A number of the table that is no integer: 1.5
Fraction == <<"1", ".", "5">>

Histories == UNION {[1..n -> TableOps] : n \in 1..MaxHistory}

\* A write of the Detector that lists the file with this size and time; its
\* lookup fails, and the file is skipped, when the record does not decode.
ListOp(cat, k, size, lastWritten) ==
    IF k \in DOMAIN cat /\ unmarshalDynamoDBEvent(cat[k]).err THEN cat
    ELSE DetectorWrite(cat, k, getLogFileRecord(cat, k),
                       [LogFileName |-> k.LogFileName, Size |-> size,
                        LastWritten |-> lastWritten])

\* "fraction" is a write from outside that sets the record's Size to 1.5.
ApplyOp(cat, k, op) ==
    CASE op = "list100" -> ListOp(cat, k, 100, 1000)
      [] op = "list200" -> ListOp(cat, k, 200, 2000)
      [] op = "delete" -> DeleteItem(cat, k)
      [] op = "fraction" -> UpdateItem(cat, k, [a \in {"Size"} |-> Fraction])

\* The table and its stream after the first n steps of a history
RECURSIVE ReplayCatalog(_, _, _)
ReplayCatalog(ops, k, n) ==
    IF n = 0 THEN [x \in {} |-> EmptyItem]
    ELSE ApplyOp(ReplayCatalog(ops, k, n - 1), k, ops[n])

RECURSIVE ReplayStream(_, _, _)
ReplayStream(ops, k, n) ==
    IF n = 0 THEN <<>>
    ELSE LET cat == ReplayCatalog(ops, k, n - 1)
             str == ReplayStream(ops, k, n - 1)
         IN IF ops[n] = "delete" THEN StreamAfterDelete(str, cat, k)
            ELSE StreamAfter(str, cat, ApplyOp(cat, k, ops[n]), k)

InitDl ==
    /\ \E ops \in Histories :
         /\ catalog = ReplayCatalog(ops, Key(DB1, AuditLogName), Len(ops))
         /\ stream = ReplayStream(ops, Key(DB1, AuditLogName), Len(ops))
    /\ now = StartTime
    /\ source = [i \in InstanceIds |->
                    [f \in FileNames |-> [Size |-> 100, LastWritten |-> 1000]]]
    /\ workQueue = <<>>
    /\ checkpoint = 0
    /\ archive = [k \in {} |-> 0]
    /\ det = [p \in DetProcs |-> DetIdle]
    /\ dl = [p \in DlProcs |-> DlIdle]
    /\ envSteps = 0
    /\ stamped = {}
    /\ completed = [once |-> {}, twice |-> {}]
    /\ sdOld = EmptyItem
    /\ sdNew = EmptyItem
    /\ sdNow = 0
    /\ sdResult = <<>>
    /\ ScanIdle
    /\ pd = PortionIdle

NextDl ==
    \E p \in DlProcs :
        \/ DlStart(p)
        \/ DlSkip(p)
        \/ DlDownloadFails(p)
        \/ DlDownload(p, RestOutcomes)
        \/ DlUploadFails(p)
        \/ DlUpload(p)
        \/ DlStampFails(p)
        \/ DlStamp(p)
        \/ DlCrash(p)

SpecDl == InitDl /\ [][NextDl]_vars

----------------------------------------------------------------------------
(* The Detector on its own: every short queue of work items for two         *)
(* instances that have two audit logs each, over a catalog that is empty,   *)
(* holds the records of one instance or of both, current or outdated        *)

MaxQueue == 2

DetQueues == UNION {[1..n -> InstanceIds] : n \in 1..MaxQueue}

DetFiles == FileNames \cup {ServerAuditLogName}

AuditKeysOf(ids) == {Key(i, f) : i \in ids, f \in {g \in DetFiles : isAuditLog(g)}}

DetCatalogs ==
    {[k \in AuditKeysOf(ids) |-> MarshalMap(record)] :
        ids \in {{}, {DB1}, InstanceIds},
        record \in {[Size |-> 100, LastWritten |-> 1000, LastBackup |-> 0],
                    [Size |-> 50, LastWritten |-> 500, LastBackup |-> StartTime - 10]}}

InitDet ==
    /\ workQueue \in DetQueues
    /\ catalog \in DetCatalogs
    /\ source = [i \in InstanceIds |->
                    [f \in DetFiles |-> [Size |-> 100, LastWritten |-> 1000]]]
    /\ now = StartTime
    /\ stream = <<>>
    /\ checkpoint = 0
    /\ archive = [k \in {} |-> 0]
    /\ det = [p \in DetProcs |-> DetIdle]
    /\ dl = [p \in DlProcs |-> DlIdle]
    /\ envSteps = 0
    /\ stamped = {}
    /\ completed = [once |-> {}, twice |-> {}]
    /\ sdOld = EmptyItem
    /\ sdNew = EmptyItem
    /\ sdNow = 0
    /\ sdResult = <<>>
    /\ ScanIdle
    /\ pd = PortionIdle

NextDet ==
    \E p \in DetProcs :
        \/ DetStart(p)
        \/ DetListFails(p)
        \/ DetList(p)
        \/ DetGetFails(p)
        \/ DetGet(p)
        \/ DetWriteFails(p)
        \/ DetWrite(p)

SpecDet == InitDet /\ [][NextDet]_vars

----------------------------------------------------------------------------
(* downloadLogFile on its own, against every answer of the API to every      *)
(* request; the loop is never suspended                                      *)

InitPortion ==
    /\ PipelineInit
    /\ sdOld = EmptyItem
    /\ sdNew = EmptyItem
    /\ sdNow = 0
    /\ sdResult = <<>>
    /\ ScanIdle
    /\ pd = [PortionIdle EXCEPT !.pc = "info"]

NextPortion == PortionInfoFails \/ PortionInfo \/ PortionRequest

SpecPortion == InitPortion /\ [][NextPortion]_vars /\ WF_vars(NextPortion)

----------------------------------------------------------------------------
(* The Scanner's run and the Detector's listing on their own: every short   *)
(* list of instances or log files, every page size, every failing request   *)

MaxListed == 3

Engines == {"aurora-mysql", "aurora", "aurora-postgresql", "postgres", NilEngine}

\* The identifier of the instance at position i: db1, db2, ...
ScanId(i) == <<"d", "b">> \o FormatNat(i)

InstanceLists ==
    UNION {{[i \in 1..n |-> [DBInstanceIdentifier |-> ScanId(i), Engine |-> e[i]]] :
               e \in [1..n -> Engines]} : n \in 0..MaxListed}

ListedNames == {AuditLogName, ServerAuditLogName, ErrorAuditLogName, RandomLogName,
                AuditXYZName, AuditPrefixName, ShortName, MyAuditName}

FileLists ==
    UNION {{[i \in 1..n |-> [LogFileName |-> f[i], Size |-> 100 * i,
                             LastWritten |-> 1000 * i]] :
               f \in [1..n -> ListedNames]} : n \in 0..MaxListed}

UnitIdle ==
    /\ PipelineInit
    /\ sdOld = EmptyItem
    /\ sdNew = EmptyItem
    /\ sdNow = 0
    /\ sdResult = <<>>
    /\ pd = PortionIdle

InitScan ==
    /\ UnitIdle
    /\ scPageSize \in PageSizes
    /\ scOut = <<>>
    /\ \/ /\ scInstances \in InstanceLists
          /\ scFailedCall \in 0..MaxListed
          /\ scFailedSends \in SUBSET (1..MaxListed)
          /\ scFiles = <<>>
       \/ /\ scFiles \in FileLists \ {<<>>}
          /\ scInstances = <<>>
          /\ scFailedCall = 0
          /\ scFailedSends = {}

\* Handler (dbscanner), one run
ScanApply ==
    /\ scOut = <<>>
    /\ scFiles = <<>>
    /\ scOut' = <<ScannerHandler(scInstances, scPageSize, scFailedCall,
                                 scFailedSends)>>
    /\ UNCHANGED <<scInstances, scFiles, scPageSize, scFailedCall, scFailedSends,
                   pipelineVars, sdVars, pd>>

\* Handler (logdetector), the listing of one instance's log files and the
\* audit logs the file loop goes on with
ListApply ==
    /\ scOut = <<>>
    /\ scFiles # <<>>
    /\ LET logFiles == FollowPages(scFiles, 0, scPageSize, <<>>)
       IN scOut' = <<[logFiles |-> logFiles,
                      audit |-> [j \in {i \in 1..Len(logFiles) :
                                          NextAudit(logFiles, i - 1) = i} |->
                                    logFiles[j].LogFileName]]>>
    /\ UNCHANGED <<scInstances, scFiles, scPageSize, scFailedCall, scFailedSends,
                   pipelineVars, sdVars, pd>>

NextScan == ScanApply \/ ListApply

SpecScan == InitScan /\ [][NextScan]_vars

----------------------------------------------------------------------------
(* Properties *)

HasLastBackup(item) == "LastBackup" \in DOMAIN item

SdkKeyOf(k) == sdkS3Key(S3Prefix, k.DBInstanceIdentifier, k.LogFileName)

RestKeyOf(k) == restS3Key(S3Prefix, k.DBInstanceIdentifier, k.LogFileName)

Db1AuditLog == Key(DB1, AuditLogName)

\* The step is one of Downloader invocation p.
DlSteps(p) == dl'[p] # dl[p]

\* The step is the write step of Detector invocation p (it may fail).
DetWriteSteps(p) == det[p].pc = "write" /\ det'[p].pc # "write"

\* C1 --------------------------------------------------------------------

StampedHaveObject == \A k \in stamped : SdkKeyOf(k) \in DOMAIN archive

DownloaderWritesAfterUpload ==
    \A p \in DlProcs :
        (DlSteps(p) /\ catalog' # catalog)
            => /\ dl[p].pc = "stamp"
               /\ SdkKeyOf(CurrentRecord(dl[p]).Keys) \in DOMAIN archive

FailureLeavesCatalog ==
    \A p \in DlProcs :
        (dl[p].pc \in {"decide", "upload"} /\ DlSteps(p)) => catalog' = catalog

\* C1: every record the Downloader stamped has its object in the archive; a
\* Downloader step changes the catalog only from the point past the upload, with
\* the record's object in the archive; and a step that ends the download or the
\* upload (failed or not) leaves the catalog as it is.
C1_StampOnlyAfterUpload ==
    /\ []StampedHaveObject
    /\ [][DownloaderWritesAfterUpload /\ FailureLeavesCatalog]_vars

C1_Witness ==
    \E k \in stamped :
        /\ k \in DOMAIN catalog
        /\ HasLastBackup(catalog[k])
        /\ SdkKeyOf(k) \in DOMAIN archive

\* C2 --------------------------------------------------------------------

SDUnchanged == /\ FieldOf(sdOld, "Size") = FieldOf(sdNew, "Size")
               /\ FieldOf(sdOld, "LastWritten") = FieldOf(sdNew, "LastWritten")

SDRecent == /\ HasLastBackup(sdNew)
            /\ FieldOf(sdNew, "LastBackup") >= sdNow - StalenessSeconds

\* C2: for a MODIFY record with Size and LastWritten equal in both images and a
\* LastBackup in the new image that is not older than 24 hours, shouldDownload
\* returns false.
C2_UnchangedAndRecentIsSkipped ==
    (sdResult # <<>> /\ SDUnchanged /\ SDRecent) => sdResult = <<FALSE>>

C2_Witness ==
    /\ sdResult = <<FALSE>>
    /\ SDUnchanged
    /\ FieldOf(sdNew, "LastBackup") = sdNow - StalenessSeconds

\* C3 --------------------------------------------------------------------

\* C3: shouldDownload returns true exactly when Size differs, LastWritten
\* differs, the new image has no LastBackup, or its LastBackup is older than 24
\* hours.
C3_ShouldDownloadCases ==
    sdResult # <<>> =>
        sdResult[1] = (\/ FieldOf(sdOld, "Size") # FieldOf(sdNew, "Size")
                       \/ FieldOf(sdOld, "LastWritten") # FieldOf(sdNew, "LastWritten")
                       \/ ~HasLastBackup(sdNew)
                       \/ FieldOf(sdNew, "LastBackup") < sdNow - StalenessSeconds)

C3_Witness ==
    /\ sdResult = <<TRUE>>
    /\ FieldOf(sdOld, "Size") = FieldOf(sdNew, "Size")
    /\ FieldOf(sdOld, "LastWritten") # FieldOf(sdNew, "LastWritten")
    /\ HasLastBackup(sdNew)
    /\ FieldOf(sdNew, "LastBackup") >= sdNow - StalenessSeconds

\* C4 --------------------------------------------------------------------

\* C4: when the Detector's lookup found no record and its insert succeeds, the
\* catalog afterwards has one record more at most, the one under the file's key,
\* which holds the listed Size and LastWritten and no LastBackup; every other
\* record is as before.
C4_InsertOfNewFile ==
    [][\A p \in DetProcs :
          (DetWrite(p) /\ ~det[p].existingRecord.found) =>
              LET k == CurrentKey(det[p])
                  logFile == det[p].logFiles[det[p].fi]
              IN /\ DOMAIN catalog' = DOMAIN catalog \cup {k}
                 /\ DOMAIN catalog'[k] = {"Size", "LastWritten"}
                 /\ catalog'[k]["Size"] = FormatInt(logFile.Size)
                 /\ catalog'[k]["LastWritten"] = FormatInt(logFile.LastWritten)
                 /\ \A k2 \in DOMAIN catalog \ {k} : catalog'[k2] = catalog[k2]]_vars

C4_Witness ==
    /\ Db1AuditLog \in DOMAIN catalog
    /\ catalog[Db1AuditLog] = [a \in {"Size", "LastWritten"} |->
                                  IF a = "Size" THEN <<"1", "0", "0">>
                                  ELSE <<"1", "0", "0", "0">>]
    /\ Len(stream) = 1
    /\ stream[1].eventName = "INSERT"

\* C5 --------------------------------------------------------------------

SameLastBackup(before, after) ==
    /\ HasLastBackup(before) <=> HasLastBackup(after)
    /\ HasLastBackup(before) => after["LastBackup"] = before["LastBackup"]

DetFoundDifferent(local) ==
    /\ local.pc = "write"
    /\ local.existingRecord.found
    /\ \/ local.existingRecord.Size # local.logFiles[local.fi].Size
       \/ local.existingRecord.LastWritten # local.logFiles[local.fi].LastWritten

\* C5: when the Detector's update of a record found with a different Size or
\* LastWritten succeeds, the record holds the listed Size and LastWritten, its
\* LastBackup is what the catalog held just before the update (the same value,
\* or still none), and the catalog has the same keys.
C5_UpdateCarriesLastBackup ==
    [][\A p \in DetProcs :
          (DetFoundDifferent(det[p]) /\ DetWrite(p)) =>
              LET k == CurrentKey(det[p])
                  logFile == det[p].logFiles[det[p].fi]
              IN /\ DOMAIN catalog' = DOMAIN catalog
                 /\ FieldOf(catalog'[k], "Size") = logFile.Size
                 /\ FieldOf(catalog'[k], "LastWritten") = logFile.LastWritten
                 /\ SameLastBackup(catalog[k], catalog'[k])]_vars

\* C6 --------------------------------------------------------------------

\* C6: no write step of a Detector invocation makes a LastBackup that is in
\* the catalog absent or older.
C6_DetectorNeverRegressesLastBackup ==
    [][\A p \in DetProcs :
          DetWriteSteps(p) =>
              \A k \in DOMAIN catalog :
                  HasLastBackup(catalog[k]) =>
                      /\ HasLastBackup(catalog'[k])
                      /\ FieldOf(catalog'[k], "LastBackup")
                             >= FieldOf(catalog[k], "LastBackup")]_vars

\* C7 --------------------------------------------------------------------

\* The catalog cat has, for every audit log of the listing of the work item the
\* invocation is at, a record with the listed Size and LastWritten.
MatchesListing(cat, local) ==
    \A i \in 1..Len(local.logFiles) :
        isAuditLog(local.logFiles[i].LogFileName) =>
            LET k == Key(local.batch[local.mi], local.logFiles[i].LogFileName)
            IN /\ k \in DOMAIN cat
               /\ FieldOf(cat[k], "Size") = local.logFiles[i].Size
               /\ FieldOf(cat[k], "LastWritten") = local.logFiles[i].LastWritten

\* C7: when a Detector invocation is done with a work item whose listing,
\* lookups and writes all succeeded, the catalog has the listed Size and
\* LastWritten for every audit log of the listing.
C7_CatalogMatchesListing ==
    [][\A p \in DetProcs :
          (DetWrite(p) /\ ~det[p].failed /\ det'[p].pc \notin {"get", "write"})
              => MatchesListing(catalog', det[p])]_vars

\* C8 --------------------------------------------------------------------

DetFoundSame(local) ==
    /\ local.pc = "write"
    /\ local.existingRecord.found
    /\ local.existingRecord.Size = local.logFiles[local.fi].Size
    /\ local.existingRecord.LastWritten = local.logFiles[local.fi].LastWritten

\* C8: a Detector step for a file whose record was found with the listed Size
\* and LastWritten leaves the catalog and the change stream exactly as they
\* are.
C8_UnchangedFileIsNoOp ==
    [][\A p \in DetProcs :
          (DetFoundSame(det[p]) /\ DetWriteSteps(p))
              => (catalog' = catalog /\ stream' = stream)]_vars

C8_Witness ==
    \E p \in DetProcs :
        /\ DetFoundSame(det[p])
        /\ det[p].existingRecord.LastBackup > 0
        /\ CurrentKey(det[p]) \in DOMAIN catalog
        /\ HasLastBackup(catalog[CurrentKey(det[p])])
        /\ Len(stream) >= 2

\* C9 --------------------------------------------------------------------

Db1AuditLogPlainKey == <<"l", "o", "g", "s", "/", "d", "b", "1", "/", "a", "u", "d", "i", "t", ".", "l", "o", "g">>

Db1AuditLogSdkKey == <<"l", "o", "g", "s", "/", "d", "b", "1", "/", "a", "u", "d", "i", "t", ".", "l", "o", "g", "-", "s", "d", "k">>

\* A MODIFY record for ("db1", "audit.log") whose Size went from 100 to 200
SizeChange100To200(record) ==
    /\ record.eventName = "MODIFY"
    /\ record.Keys = Db1AuditLog
    /\ FieldOf(record.OldImage, "Size") = 100
    /\ FieldOf(record.NewImage, "Size") = 200

\* C9 as the specification states it: after the Downloader is done with that
\* MODIFY record, the record has a LastBackup and the archive holds an object
\* at exactly logs/db1/audit.log.
C9_ObjectAtPlainKey ==
    [][\A p \in DlProcs :
          (DlStamp(p) /\ SizeChange100To200(CurrentRecord(dl[p]))) =>
              /\ HasLastBackup(catalog'[Db1AuditLog])
              /\ Db1AuditLogPlainKey \in DOMAIN archive']_vars

\* C9: after the Downloader is done with that MODIFY record, the record has a
\* LastBackup and the archive holds an object at logs/db1/audit.log-sdk; every
\* key of the archive is the prefix, the instance identifier and the file name
\* of a catalog record joined by "/", with the suffix -sdk or -rest.
C9_ObjectAtSdkKey ==
    /\ [](\A key \in DOMAIN archive :
             \E k \in DOMAIN catalog : key \in {SdkKeyOf(k), RestKeyOf(k)})
    /\ [][\A p \in DlProcs :
             (DlStamp(p) /\ SizeChange100To200(CurrentRecord(dl[p]))) =>
                 /\ HasLastBackup(catalog'[Db1AuditLog])
                 /\ Db1AuditLogSdkKey \in DOMAIN archive'
                 /\ Db1AuditLogPlainKey \notin DOMAIN archive']_vars

C9_Witness ==
    \E position \in completed.once :
        /\ position <= Len(stream)
        /\ SizeChange100To200(stream[position])
        /\ HasLastBackup(catalog[Db1AuditLog])
        /\ Db1AuditLogSdkKey \in DOMAIN archive

\* C10 -------------------------------------------------------------------

\* Downloader invocation p is at a record it went through to the end before.
SecondProcessing(p) ==
    dl[p].pc # "idle" /\ (dl[p].from + dl[p].ri) \in completed.once

SameSizeAndLastWritten(cat, cat2) ==
    /\ DOMAIN cat2 = DOMAIN cat
    /\ \A k \in DOMAIN cat : \A a \in {"Size", "LastWritten"} :
          /\ a \in DOMAIN cat[k] <=> a \in DOMAIN cat2[k]
          /\ a \in DOMAIN cat[k] => cat2[k][a] = cat[k][a]

\* C10 as the specification states it: processing a record a second time
\* uploads at most one object.
C10_AtMostOneRedundantUpload ==
    \A p \in DlProcs : SecondProcessing(p) => dl[p].uploads <= 1

\* C10: every step of the Downloader, on a record it meets for the first time
\* or on one it went through before, keeps the keys of the catalog and every
\* record's Size and LastWritten, and adds no archive key other than the -sdk
\* and -rest keys of the record; processing a record a second time uploads at
\* most two objects (the SDK result and the REST result).
C10_SecondProcessingKeepsRecord ==
    /\ [](\A p \in DlProcs : SecondProcessing(p) => dl[p].uploads <= 2)
    /\ [][\A p \in DlProcs :
             (dl[p].pc # "idle" /\ DlSteps(p)) =>
                 /\ SameSizeAndLastWritten(catalog, catalog')
                 /\ DOMAIN archive' \ DOMAIN archive
                        \subseteq {SdkKeyOf(CurrentRecord(dl[p]).Keys),
                                   RestKeyOf(CurrentRecord(dl[p]).Keys)}]_vars

C10_Witness ==
    \E position \in completed.twice :
        /\ position <= Len(stream)
        /\ stream[position].Keys \in DOMAIN catalog
        /\ HasLastBackup(catalog[stream[position].Keys])
        /\ "Size" \in DOMAIN catalog[stream[position].Keys]

\* C11 -------------------------------------------------------------------

\* The Handler goes on to download for the record whatever the time is: an
\* INSERT, or a MODIFY that shouldDownload accepts at the earliest time.
AlwaysWantsDownload(record) == WantsDownload(record, StartTime)

\* C11, for finite runs: a change event that warrants a download stays to be
\* retried until its backup succeeded, that is, the stream's checkpoint never
\* moves past such an event before the Downloader went through it to the stamp
\* of LastBackup.
C11_WarrantedEventRetriedUntilBackedUp ==
    \A position \in 1..checkpoint :
        AlwaysWantsDownload(stream[position]) => position \in completed.once

\* C12 -------------------------------------------------------------------

\* The record under k has a LastBackup older than the threshold at time t.
Stale(cat, k, t) ==
    /\ k \in DOMAIN cat
    /\ HasLastBackup(cat[k])
    /\ FieldOf(cat[k], "LastBackup") < t - StalenessSeconds

\* Nothing is on its way to the Downloader.
DownloaderAtRest ==
    /\ checkpoint = Len(stream)
    /\ \A p \in DlProcs : dl[p].pc = "idle"

\* C12, for finite runs: the Downloader runs on change events only, so a stale
\* file with unchanged Size and LastWritten gets its new backup only if the
\* pipeline's pass over it leaves a change event: when the Detector is done
\* with a file it found unchanged, whose record it read with a stale LastBackup
\* that is still in the catalog, and nothing is on its way to the Downloader, a
\* change event for the Downloader follows.
C12_StaleFileIsBackedUpAgain ==
    [][\A p \in DetProcs :
          (/\ DetFoundSame(det[p])
           /\ DetWriteSteps(p)
           /\ det[p].existingRecord.LastBackup > 0
           /\ det[p].existingRecord.LastBackup < now - StalenessSeconds
           /\ Stale(catalog, CurrentKey(det[p]), now)
           /\ DownloaderAtRest)
              => stream' # stream]_vars

\* C13 -------------------------------------------------------------------

OtherEvent(record) == record.eventName \notin {"INSERT", "MODIFY"}

\* C13: a step of the Downloader at a record that is neither INSERT nor MODIFY
\* leaves the catalog, its stream and the archive as they are and starts no
\* download: the invocation is at the next record of the batch (or over) after
\* it.
C13_OtherEventsIgnored ==
    [][\A p \in DlProcs :
          (dl[p].pc = "decide" /\ OtherEvent(CurrentRecord(dl[p])) /\ DlSteps(p))
              => /\ catalog' = catalog
                 /\ stream' = stream
                 /\ archive' = archive
                 /\ dl'[p] \in {NextRecord(dl[p]), DlIdle}]_vars

C13_Witness ==
    \E p \in DlProcs :
        /\ dl[p].pc = "upload"
        /\ dl[p].ri = 2
        /\ OtherEvent(dl[p].batch[1])
        /\ DOMAIN archive = {}

\* C14 -------------------------------------------------------------------

\* C14: when downloadLogFile or the upload of the SDK result fails for a record
\* the catalog stays as it is, and the invocation goes on with the next record
\* of the same batch; it returns only after the last one.
C14_FailureSkipsOneRecord ==
    [][\A p \in DlProcs :
          (DlDownloadFails(p) \/ DlUploadFails(p)) =>
              /\ catalog' = catalog
              /\ IF dl[p].ri < Len(dl[p].batch)
                 THEN /\ dl'[p].pc = "decide"
                      /\ dl'[p].ri = dl[p].ri + 1
                      /\ dl'[p].batch = dl[p].batch
                      /\ dl'[p].from = dl[p].from
                      /\ checkpoint' = checkpoint
                 ELSE /\ dl'[p].pc = "idle"
                      /\ checkpoint' = dl[p].from + Len(dl[p].batch)]_vars

C14_Witness ==
    \E p \in DlProcs :
        /\ dl[p].pc = "upload"
        /\ dl[p].ri = 2
        /\ AlwaysWantsDownload(dl[p].batch[1])
        /\ DOMAIN archive = {}
        /\ \A k \in DOMAIN catalog : ~HasLastBackup(catalog[k])

\* C15 -------------------------------------------------------------------

\* The REST result is missing, differs from the SDK result, or is not in the
\* archive.
RestTrouble(local, bucket) ==
    LET key == RestKeyOf(local.batch[local.ri].Keys)
    IN \/ ~local.restLogContent.ok
       \/ local.restLogContent.data # local.sdkLogContent.data
       \/ key \notin DOMAIN bucket
       \/ bucket[key] # local.restLogContent.data

\* C15: past the uploads the SDK result is in the archive under the record's
\* -sdk key, whatever became of the REST result; and the stamp that follows a
\* missing, different or not uploaded REST result sets LastBackup to the
\* current time.
C15_SecondMethodIsNotFatal ==
    /\ [](\A p \in DlProcs :
             dl[p].pc = "stamp" =>
                 /\ SdkKeyOf(CurrentRecord(dl[p]).Keys) \in DOMAIN archive
                 /\ archive[SdkKeyOf(CurrentRecord(dl[p]).Keys)]
                        = dl[p].sdkLogContent.data)
    /\ [][\A p \in DlProcs :
             (DlStamp(p) /\ RestTrouble(dl[p], archive)) =>
                 /\ HasLastBackup(catalog'[CurrentRecord(dl[p]).Keys])
                 /\ FieldOf(catalog'[CurrentRecord(dl[p]).Keys], "LastBackup") = now]_vars

C15_Witness ==
    \E k \in stamped :
        /\ k \in DOMAIN catalog
        /\ HasLastBackup(catalog[k])
        /\ SdkKeyOf(k) \in DOMAIN archive
        /\ RestKeyOf(k) \in DOMAIN archive
        /\ archive[RestKeyOf(k)] # archive[SdkKeyOf(k)]

\* C16 -------------------------------------------------------------------

ScanDone == scOut # <<>> /\ scFiles = <<>>

Qualifies(instance) == instance.Engine \in {"aurora-mysql", "aurora"}

\* The position among the qualifying instances of the one at position i
RankOf(i) == Cardinality({j \in 1..i : Qualifies(scInstances[j])})

\* The positions of the instances a run is to publish: those that qualify and
\* whose send does not fail
ToPublish ==
    {i \in 1..Len(scInstances) :
        Qualifies(scInstances[i]) /\ RankOf(i) \notin scFailedSends}

IdsAt(positions) == {scInstances[i].DBInstanceIdentifier : i \in positions}

SentIds == {scOut[1].sent[j] : j \in 1..Len(scOut[1].sent)}

\* C16: after a run whose enumeration succeeded, the identifier of an instance
\* is among the messages sent if and only if its engine is "aurora-mysql" or
\* "aurora" and its send did not fail; each is sent once.
C16_OnlyAuroraEnginesPublished ==
    (ScanDone /\ ~scOut[1].err) =>
        /\ SentIds = IdsAt(ToPublish)
        /\ Len(scOut[1].sent) = Cardinality(ToPublish)

C16_Witness ==
    /\ ScanDone
    /\ Len(scInstances) = 2
    /\ scInstances[1].Engine = "aurora-mysql"
    /\ scInstances[2].Engine = "postgres"
    /\ scFailedSends = {}
    /\ scOut[1].sent = <<DB1>>

\* C17 -------------------------------------------------------------------

\* C17: the count a run returns is the number of messages it sent.
C17_CountIsNumberPublished ==
    (ScanDone /\ ~scOut[1].err) => scOut[1].InstancesFound = Len(scOut[1].sent)

\* C18 -------------------------------------------------------------------

\* C18: a run whose enumeration succeeded returns no error whatever sends
\* failed, and the instances after a failed send are sent all the same, in the
\* order of the listing.
C18_SendFailureDoesNotAbort ==
    (ScanDone /\ scFailedCall = 0) =>
        /\ ~scOut[1].err
        /\ \A i \in ToPublish :
              \E j \in 1..Len(scOut[1].sent) :
                  /\ scOut[1].sent[j] = scInstances[i].DBInstanceIdentifier
                  /\ j = Cardinality({i2 \in ToPublish : i2 <= i})

C18_Witness ==
    /\ ScanDone
    /\ Len(scInstances) = 3
    /\ \A i \in 1..3 : Qualifies(scInstances[i])
    /\ scFailedSends = {1}
    /\ ~scOut[1].err
    /\ scOut[1].sent = <<ScanId(2), ScanId(3)>>

\* C19 -------------------------------------------------------------------

\* C19: when a page request of the enumeration fails, the first or a later
\* one, the run returns the error and sends nothing.
C19_EnumerationFailureAborts ==
    (ScanDone /\ scFailedCall \in 1..PageCalls(scInstances, 0, scPageSize)) =>
        /\ scOut[1].err
        /\ scOut[1].sent = <<>>

C19_Witness ==
    /\ ScanDone
    /\ scPageSize = 1
    /\ Len(scInstances) = 3
    /\ Qualifies(scInstances[1])
    /\ scFailedCall = 3
    /\ scOut[1].err
    /\ scOut[1].sent = <<>>

\* C20 -------------------------------------------------------------------

\* C20: the instances a run lists are all the instances, in order, whatever the
\* page size, and so are the log files the Detector lists; the audit logs the
\* Detector goes on with are those of the whole listing.
C20_AllPagesFollowed ==
    /\ (ScanDone /\ ~scOut[1].err) => scOut[1].instances = scInstances
    /\ (scOut # <<>> /\ scFiles # <<>>) =>
          /\ scOut[1].logFiles = scFiles
          /\ DOMAIN scOut[1].audit
                 = {i \in 1..Len(scFiles) : isAuditLog(scFiles[i].LogFileName)}

C20_Witness ==
    /\ ScanDone
    /\ scPageSize = 1
    /\ Len(scInstances) = 3
    /\ ~Qualifies(scInstances[1])
    /\ ~Qualifies(scInstances[2])
    /\ scInstances[3].Engine = "aurora"
    /\ scFailedSends = {}
    /\ scOut[1].sent = <<ScanId(3)>>

\* C21 -------------------------------------------------------------------

\* The three names the predicate accepts as they are
ExactAuditNames == {AuditLogName, ServerAuditLogName, ErrorAuditLogName}

\* The first five characters of a name are "audit"
StartsWithAudit(name) ==
    /\ Len(name) >= 5
    /\ \A i \in 1..5 : name[i] = AuditPrefixName[i]

\* The listing of a Detector is over.
ListDone == scOut # <<>> /\ scFiles # <<>>

AtNextMessage(p) ==
    IF det[p].mi < Len(det[p].batch)
    THEN /\ det'[p].pc = "list"
         /\ det'[p].mi = det[p].mi + 1
         /\ det'[p].batch = det[p].batch
    ELSE det'[p].pc = "idle"

\* The positions after the current file whose name the predicate accepts
LaterAuditLogs(local) ==
    {j \in (local.fi + 1)..Len(local.logFiles) :
        \/ local.logFiles[j].LogFileName \in ExactAuditNames
        \/ StartsWithAudit(local.logFiles[j].LogFileName)}

\* ... at the next audit log of the same listing, or at the next work item.
AtNextFile(p) ==
    LET later == LaterAuditLogs(det[p])
    IN IF later # {}
       THEN /\ det'[p].pc = "get"
            /\ det'[p].fi \in later
            /\ \A j \in later : det'[p].fi <= j
            /\ det'[p].logFiles = det[p].logFiles
            /\ det'[p].mi = det[p].mi
            /\ det'[p].batch = det[p].batch
       ELSE AtNextMessage(p)

\* C22: a failed lookup, insert or update for a file leaves the catalog and its
\* stream as they are and the invocation goes on with the next audit log of
\* the same instance, or with the next work item after the last one; a failed
\* listing leaves them as they are and the invocation goes on with the next
\* work item; it returns only after the last work item.
C22_DetectorErrorSkipsOneItem ==
    [][\A p \in DetProcs :
          /\ DetListFails(p) =>
                (catalog' = catalog /\ stream' = stream /\ AtNextMessage(p))
          /\ (DetGetFails(p) \/ DetWriteFails(p)) =>
                (catalog' = catalog /\ stream' = stream /\ AtNextFile(p))]_vars

\* The first audit log of the first work item failed, the second is about to
\* be written, and another work item waits in the batch.
C22_Witness ==
    \E p \in DetProcs :
        /\ det[p].pc = "write"
        /\ det[p].failed
        /\ det[p].mi = 1
        /\ Len(det[p].batch) = 2
        /\ det[p].logFiles[det[p].fi].LogFileName = ServerAuditLogName
        /\ catalog = [k \in {} |-> EmptyItem]

\* C23 -------------------------------------------------------------------

\* How many messages of the queue are the work item x
Occurrences(queue, x) == Cardinality({j \in 1..Len(queue) : queue[j] = x})

\* C23: when the listing of an instance's log files fails for the last work
\* item of a batch and the invocation returns, the work item is in the queue
\* again, to be delivered once more.
C23_ListingErrorRedelivers ==
    [][\A p \in DetProcs :
          (DetListFails(p) /\ det'[p].pc = "idle") =>
              Occurrences(workQueue', det[p].batch[det[p].mi])
                  > Occurrences(workQueue, det[p].batch[det[p].mi])]_vars

\* C24 -------------------------------------------------------------------

\* C24: every download ends, with the content or with an error, whatever the
\* API answers.
C24_DownloadTerminates == <>(pd.pc \in {"done", "error"})

\* C25 -------------------------------------------------------------------

\* The texts of the first n responses, one after the other
RECURSIVE Concatenation(_, _)
Concatenation(responses, n) ==
    IF n = 0 THEN <<>>
    ELSE Concatenation(responses, n - 1) \o responses[n].LogFileData.text

MoreData(resp) == ~resp.err /\ resp.AdditionalDataPending = "true"

\* C25: a download that succeeded (with requests that are all on record)
\* returns the texts of all the portions it fetched, in the order of the
\* requests; the first request asked for marker "0" and each later one for the
\* marker of the answer before it; every answer but the last signalled more
\* data and the last did not. A download whose last request failed has failed,
\* and a failed or unfinished download has returned no content.
C25_ContentIsConcatenation ==
    LET n == Len(pd.responses)
    IN /\ (pd.pc = "done" /\ pd.portionCount <= MaxPortions) =>
             /\ n = pd.portionCount
             /\ n >= 1
             /\ pd.result = [ok |-> TRUE,
                             data |-> Concatenation(pd.responses, n)]
             /\ pd.requests[1] = "0"
             /\ \A i \in 2..n : pd.requests[i] = pd.responses[i - 1].Marker
             /\ \A i \in 1..(n - 1) : MoreData(pd.responses[i])
             /\ ~pd.responses[n].err
             /\ ~MoreData(pd.responses[n])
       /\ pd.pc = "done" => pd.result.data = Concatenation(pd.responses, n)
       /\ (n >= 1 /\ pd.responses[n].err) => pd.pc = "error"
       /\ pd.pc # "done" => pd.result = NoResult

C25_Witness ==
    /\ pd.pc = "done"
    /\ pd.requests = <<"0", "1">>
    /\ pd.result = [ok |-> TRUE, data |-> <<"a", "b">>]

\* C26 -------------------------------------------------------------------

\* The step is a pass of the loop whose answer signals more data.
PassWithMoreData ==
    /\ pd.pc = "request"
    /\ Len(pd'.responses) = Len(pd.responses) + 1
    /\ MoreData(pd'.responses[Len(pd'.responses)])

\* C26: a pass of the loop whose answer signals more data but carries no
\* marker, an empty marker or the marker just asked for ends the download with
\* an error; no further request is made.
C26_MarkerVerified ==
    [][PassWithMoreData =>
          LET marker == pd'.responses[Len(pd'.responses)].Marker
          IN (marker = NilMarker \/ marker = "" \/ marker = pd.marker)
                 => pd'.pc = "error"]_vars

\* C27 -------------------------------------------------------------------

\* A numeric field of the image is no integer.
HasUnparsedNumber(image) ==
    \E a \in DOMAIN image \cap {"Size", "LastWritten", "LastBackup"} :
        \E i \in 1..Len(image[a]) : image[a][i] \notin {DigitChars[j] : j \in 1..10}

\* C27: an INSERT or MODIFY record whose new image has a numeric field that is
\* no integer is not skipped: the Handler goes on to download the file.
C27_UnparsedNumberIsDownloaded ==
    \A p \in DlProcs :
        (/\ dl[p].pc = "decide"
         /\ CurrentRecord(dl[p]).eventName \in {"INSERT", "MODIFY"}
         /\ HasUnparsedNumber(CurrentRecord(dl[p]).NewImage))
            => WantsDownload(CurrentRecord(dl[p]), now)

\* C28 -------------------------------------------------------------------

\* The record is the MODIFY that a stamp of the Downloader leaves in the
\* stream: Size and LastWritten as before, LastBackup set or changed.
StampEvent(record) ==
    /\ record.eventName = "MODIFY"
    /\ {"Size", "LastWritten"} \subseteq DOMAIN record.OldImage
    /\ {"Size", "LastWritten", "LastBackup"} \subseteq DOMAIN record.NewImage
    /\ record.OldImage["Size"] = record.NewImage["Size"]
    /\ record.OldImage["LastWritten"] = record.NewImage["LastWritten"]
    /\ (HasLastBackup(record.OldImage)
          => record.OldImage["LastBackup"] # record.NewImage["LastBackup"])

\* The time since the stamp that the record carries is at most 24 hours.
WithinADay(record, t) ==
    /\ FieldOf(record.NewImage, "LastBackup") <= t
    /\ t - FieldOf(record.NewImage, "LastBackup") <= StalenessSeconds

\* C28: a stamp's own MODIFY record, met by the Handler within 24 hours of the
\* stamp, is skipped; and the stream holds at most two records for each step
\* of the environment (a Scanner run, a write of the database to its log, an
\* advance of the clock), so what the pipeline writes is bounded by what
\* happens outside it.
C28_OwnStampIsSkipped ==
    /\ \A p \in DlProcs :
          (/\ dl[p].pc = "decide"
           /\ StampEvent(CurrentRecord(dl[p]))
           /\ WithinADay(CurrentRecord(dl[p]), now))
              => ~WantsDownload(CurrentRecord(dl[p]), now)
    /\ Len(stream) <= 2 * envSteps

\* The stamp's record has been consumed and nothing followed it.
C28_Witness ==
    /\ Len(stream) = 2
    /\ StampEvent(stream[2])
    /\ WithinADay(stream[2], now)
    /\ checkpoint = 2
    /\ \A p \in DlProcs : dl[p].pc = "idle"
    /\ \A p \in DetProcs : det[p].pc = "idle"
    /\ workQueue = <<>>

\* C29 -------------------------------------------------------------------

\* The database only appends to its logs: of two observations of a file the
\* one with the smaller Size and LastWritten is the older.
NotOlder(after, before) ==
    /\ FieldOf(after, "Size") >= FieldOf(before, "Size")
    /\ FieldOf(after, "LastWritten") >= FieldOf(before, "LastWritten")

\* C29: the write with which the last running Detector invocation finishes
\* does not put an older observation of a file over the one the catalog holds.
C29_LaterObservationKept ==
    [][\A p \in DetProcs :
          (DetWrite(p) /\ \A q \in DetProcs : det'[q].pc = "idle") =>
              \A k \in DOMAIN catalog : NotOlder(catalog'[k], catalog[k])]_vars

\* C30 -------------------------------------------------------------------

\* Every record is under the key of an audit log and has Size and LastWritten.
RecordsAreAuditLogs ==
    \A k \in DOMAIN catalog :
        /\ k.LogFileName \in ExactAuditNames \/ StartsWithAudit(k.LogFileName)
        /\ {"Size", "LastWritten"} \subseteq DOMAIN catalog[k]

\* No step removes a record, and a step that adds one is a write step of the
\* Detector, never a step of the Downloader.
RecordsOnlyFromDetector ==
    /\ DOMAIN catalog \subseteq DOMAIN catalog'
    /\ DOMAIN catalog' # DOMAIN catalog =>
          /\ \E p \in DetProcs : DetWriteSteps(p)
          /\ \A p \in DlProcs : ~DlSteps(p)

\* C30: every record of the catalog is under a key whose file name the
\* audit-log predicate accepts and has Size and LastWritten; records are added
\* by the Detector's write only, never by the Downloader, and none is removed.
C30_RecordsCreatedByDetector ==
    /\ []RecordsAreAuditLogs
    /\ [][RecordsOnlyFromDetector]_vars

\* The Downloader has stamped the one record, which the Detector created.
C30_Witness ==
    /\ DOMAIN catalog = {Db1AuditLog}
    /\ DOMAIN catalog[Db1AuditLog] = {"Size", "LastWritten", "LastBackup"}
    /\ stamped = {Db1AuditLog}
    /\ Len(stream) >= 2

====
